---------------------------- MODULE Spec2Model ----------------------------
(***************************************************************************)
(* A model of dedup (src/src/lib.rs, src/src/models.rs, src/src/digest.rs). *)
(*                                                                         *)
(* The program walks the target trees, classifies every regular file by    *)
(* (device, inode), hashes the files whose size is shared by two inodes of *)
(* a device, and then replaces every file of a content group by a hardlink *)
(* to the group's canonical file.                                          *)
(*                                                                         *)
(* The file system is a small fixed tree:                                  *)
(*                                                                         *)
(*    a/            directory A, device 1                                  *)
(*    a/m/          directory M, the root of device 2 mounted below a      *)
(*    a/m/k         a file of device 2, or a bind mount of the file a/g    *)
(*    a/f, a/g      files of device 1                                      *)
(*    a/b/          directory B, device 1                                  *)
(*    a/b/h         a file of device 1                                     *)
(*    s             a symbolic link to a                                   *)
(*                                                                         *)
(* Which files are hardlinks of each other, what they contain and their    *)
(* modification times are chosen by Init, and so is the list of targets.   *)
(***************************************************************************)
EXTENDS Integers, Sequences, FiniteSets, TLC

\* The longest list of targets on the command line.
MaxTargets == 2
\* File modification times are drawn from 1..MaxMtime.
MaxMtime == 2

---------------------------------------------------------------------------
(* Small helpers for the HashMaps of models.rs, held as functions.         *)

EmptyMap == [x \in {} |-> {}]

Put(m, k, v) == [x \in (DOMAIN m) \cup {k} |-> IF x = k THEN v ELSE m[x]]

Front(s) == SubSeq(s, 1, Len(s) - 1)

Last(s) == s[Len(s)]

RECURSIVE SetToSeq(_)
SetToSeq(S) == IF S = {} THEN <<>>
               ELSE LET x == CHOOSE y \in S : TRUE IN <<x>> \o SetToSeq(S \ {x})

RECURSIVE SeqSum(_)
SeqSum(s) == IF s = <<>> THEN 0 ELSE Head(s) + SeqSum(Tail(s))

Range(s) == {s[i] : i \in DOMAIN s}

Min(S) == CHOOSE x \in S : \A y \in S : x <= y

---------------------------------------------------------------------------
(* The file system.                                                        *)

Dirs == {"A", "B", "M"}

\* st_dev and st_ino of the directories. M is the root of the file system
\* mounted at a/m, and has the inode number of the root of device 1's tree.
DirDev(d) == IF d = "M" THEN 2 ELSE 1

DirIno(d) == CASE d = "A" -> 2 [] d = "B" -> 3 [] d = "M" -> 2

\* The entries of a directory, in the order read_dir returns them.
ReadDir(d) == CASE d = "A" -> <<"m", "f", "g", "b">>
                [] d = "B" -> <<"h">>
                [] d = "M" -> <<"k">>

SubDir(d, n) == CASE d = "A" /\ n = "m" -> "M"
                  [] d = "A" /\ n = "b" -> "B"
                  [] OTHER -> "none"

\* A directory entry that holds a file: <<directory, name>>.
Af == <<"A", "f">>

Ag == <<"A", "g">>

Bh == <<"B", "h">>

Mk == <<"M", "k">>

Slots == {Af, Ag, Bh, Mk}

\* File inodes, <<st_dev, st_ino>>.
Dev1Inodes == {<<1, 11>>, <<1, 12>>, <<1, 13>>}

FileInodes == Dev1Inodes \cup {<<2, 11>>}

NoFile == <<0, 0>>

Contents == {"p", "q", "r"}

\* metadata.size(): "p" and "q" are 10 bytes long, "r" is 5000 bytes long.
SizeOf(c) == IF c = "r" THEN 5000 ELSE 10

\* metadata.blocks(): the 512-byte blocks allocated to the file.
BlocksOf(c) == IF c = "r" THEN 16 ELSE 8

\* SHA-256 of a content: one digest per content (no collisions).
Sha256(c) == <<"sha256", c>>

\* The time the system stamps on a directory whose entries change.
Now == MaxMtime + 1

\* Paths are sequences of names. The roots are a and the symbolic link s.
RootNames == {"a", "s"}

RECURSIVE PathDir(_)
\* The directory a path resolves to, following the symbolic link s
\* (fs::metadata), or "none".
PathDir(p) == IF Len(p) = 0 THEN "none"
              ELSE IF Len(p) = 1 THEN (IF p[1] \in RootNames THEN "A" ELSE "none")
              ELSE LET d == PathDir(Front(p)) IN
                   IF d = "none" THEN "none" ELSE SubDir(d, Last(p))

\* The directory entry a file path names, or <<"none", name>>.
PathSlot(p) == IF Len(p) < 2 THEN <<"none", "">>
               ELSE <<PathDir(Front(p)), Last(p)>>

\* Path::parent()
Parent(p) == Front(p)

VARIABLES
  \* the file system
  link,        \* directory entry -> the file inode it names, or NoFile
  fmtime,      \* file inode -> modification time
  dmtime,      \* directory -> modification time
  content,     \* file inode -> content (never written by the program)
  mounted,     \* TRUE when a/m/k is a bind mount of a file of device 1
  \* the program
  targets,     \* Args.targets
  pc,          \* where run() is
  err,         \* the context of the error that ended the run, or ""
  ti,          \* walk_and_prepare: the targets started so far
  stack,       \* walk_and_prepare: the entries the WalkDir iterator still yields
  database,    \* Database: device -> Device
  gain,        \* execute_relink: gain
  todo,        \* execute_relink: the <<device, digest>> groups not yet iterated
  gdev,        \* execute_relink: the device being iterated
  inodes,      \* execute_relink: the sorted inode numbers of the group
  original_path, \* execute_relink: original_path
  ii,          \* execute_relink: index into inodes of the inode being relinked
  fi,          \* execute_relink: index into its files of the file being relinked
  link_dir_mtime, \* relink: link_dir_mtime
  out,         \* standard output of this run, a sequence of lines
  \* instrumentation
  run_no,      \* 1 in the first run of the program, 2 in the second
  hashed,      \* file inode -> calls of sha256file that opened it, this run
  entered,     \* directory -> times the walk descended into it, this run
  classified,  \* the paths handed to prepare_file, in order, this run
  ops,         \* file system mutations of this run, by kind
  relinked,    \* the paths whose relink() returned Ok, this run
  pre          \* the file system as it was when this run started, and the
               \* number of paths the run before it relinked

fsvars == <<link, fmtime, dmtime, content, mounted>>

walkvars == <<ti, stack>>

relinkvars == <<gain, todo, gdev, inodes, original_path, ii, fi, link_dir_mtime>>

ghostvars == <<run_no, hashed, entered, classified, ops, relinked, pre>>

vars == <<link, fmtime, dmtime, content, mounted, targets, pc, err, ti, stack,
          database, gain, todo, gdev, inodes, original_path, ii, fi,
          link_dir_mtime, out, run_no, hashed, entered, classified, ops,
          relinked, pre>>

IsMount(s) == mounted /\ s = Mk

\* st_nlink of a file inode: the directory entries of its file system
\* naming it (a bind mount is no directory entry).
Nlink(l, i) == Cardinality({s \in Slots : l[s] = i /\ ~IsMount(s)})

\* What lstat reports of a path (walkdir's DirEntry::metadata without
\* follow_links): the link s itself is a symlink.
LStat(p) ==
  IF p = <<"s">> THEN [type |-> "symlink"]
  ELSE IF PathDir(p) # "none"
  THEN [type |-> "dir", dev |-> DirDev(PathDir(p)), ino |-> DirIno(PathDir(p)),
        mtime |-> dmtime[PathDir(p)]]
  ELSE IF PathSlot(p) \in Slots /\ link[PathSlot(p)] # NoFile
  THEN LET i == link[PathSlot(p)] IN
       [type |-> "file", dev |-> i[1], ino |-> i[2], mtime |-> fmtime[i],
        nlink |-> Nlink(link, i), size |-> SizeOf(content[i]),
        blocks |-> BlocksOf(content[i])]
  ELSE [type |-> "missing"]

\* What stat reports of a path (fs::metadata): the link s is followed.
Stat(p) == IF p = <<"s">> THEN LStat(<<"a">>) ELSE LStat(p)

\* The paths walkdir yields below a directory path, in read_dir order.
Children(p) ==
  LET d == PathDir(p)
      names == ReadDir(d)
      present(n) == SubDir(d, n) # "none" \/ link[<<d, n>>] # NoFile
  IN SelectSeq([k \in DOMAIN names |-> Append(p, names[k])],
               LAMBDA c : present(Last(c)))

TargetPaths == {<<"a">>, <<"a", "b">>, <<"s">>, <<"a", "f">>}

RECURSIVE SeqsUpTo(_, _)
SeqsUpTo(S, n) == IF n = 0 THEN {<<>>}
                  ELSE LET shorter == SeqsUpTo(S, n - 1) IN
                       shorter \cup {Append(s, x) : s \in shorter, x \in S}

TargetLists == SeqsUpTo(TargetPaths, MaxTargets) \ {<<>>}

---------------------------------------------------------------------------
(* models.rs                                                               *)

\* Database::new
Database_new == EmptyMap

\* Device::new
Device_new == [inodes |-> EmptyMap, sieve |-> EmptyMap,
               identicals |-> EmptyMap, visited_dirs |-> {}]

\* Database::get_or_insert: the database with a bundle for dev.
Database_get_or_insert(db, dev) ==
  IF dev \in DOMAIN db THEN db ELSE Put(db, dev, Device_new)

\* Inode::new
Inode_new(mtime, nlink, realsize) ==
  [mtime |-> mtime, nlink |-> nlink, realsize |-> realsize, files |-> <<>>]

\* Inodes::get_or_insert
Inodes_get_or_insert(map, ino, mtime, nlink, realsize) ==
  IF ino \in DOMAIN map THEN map
  ELSE Put(map, ino, Inode_new(mtime, nlink, realsize))

\* IdenticalFiles::get_or_insert
IdenticalFiles_get_or_insert(map, hash) ==
  IF hash \in DOMAIN map THEN map ELSE Put(map, hash, [inos |-> <<>>])

\* FileSizeSieveEntry
Unique(ino) == [tag |-> "Unique", ino |-> ino]

Ambiguous == [tag |-> "Ambiguous"]

\* FileSizeSieve::set_unique
set_unique(map, size, ino) == Put(map, size, Unique(ino))

\* VisitedDirs::visit: the set after the insert, and whether ino was new.
visit(set, ino) == [set |-> set \cup {ino}, fresh |-> ino \notin set]

---------------------------------------------------------------------------
(* digest.rs, lib.rs: classification                                       *)

\* sha256file that hashes no byte of the file: every file has one digest.
sha256file_of_nothing(path) == Sha256("")

\* sha256file(path): the digest of the bytes read through path.
sha256file(path) == Sha256(content[link[PathSlot(path)]])

\* insert_identical_file that starts the group anew with every insert.
insert_identical_file_replacing(identicals, hash, ino) ==
  Put(identicals, hash, [inos |-> <<ino>>])

\* insert_identical_file once the hash is known.
insert_identical_file(identicals, hash, ino) ==
  LET m == IdenticalFiles_get_or_insert(identicals, hash) IN
  [m EXCEPT ![hash].inos = Append(@, ino)]

\* The lookup that finds no inode: every path is taken for a new inode.
known_inode_never(device, ino) == FALSE

\* device.inodes.get_mut(ino) is Some: a path of this inode was seen before.
known_inode(device, ino) == ino \in DOMAIN device.inodes

\* The sieve keyed by the link count instead of the size.
sieve_key_nlink(md) == md.nlink

\* let size = metadata.size(): the key of the size sieve.
sieve_key(md) == md.size

\* The entry left Unique when the second inode of the size is seen.
sieve_transition_forgotten(sieve, size) == sieve

\* Every entry of the sieve made Ambiguous, whatever its size.
sieve_transition_all(sieve, size) == [x \in DOMAIN sieve |-> Ambiguous]

\* *sieve_entry = FileSizeSieveEntry::Ambiguous
sieve_transition(sieve, size) == [sieve EXCEPT ![size] = Ambiguous]

\* Every file taken for a file of device 1.
prepare_file_dev_one(md) == 1

\* let dev = Dev(metadata.dev()): the key of the file's device bundle.
prepare_file_dev(md) == md.dev

\* prepare_file(database, path, metadata). hfail is the number of the call
\* of sha256file that fails (0: none does). The result is the database,
\* whether prepare_file returned Ok, and the paths sha256file was called
\* with, in order.
prepare_file(db, path, md, hfail) ==
  LET dev == prepare_file_dev(md)
      ino == md.ino
      db1 == Database_get_or_insert(db, dev)
      device == db1[dev]
  IN
  IF known_inode(device, ino)
  THEN [db |-> [db1 EXCEPT ![dev].inodes[ino].files = Append(@, path)],
        ok |-> TRUE, hashes |-> <<>>]
  ELSE
  LET realsize == md.blocks * 512
      inodes0 == Inodes_get_or_insert(device.inodes, ino, md.mtime, md.nlink, realsize)
      inodes1 == [inodes0 EXCEPT ![ino].files = Append(@, path)]
      size == sieve_key(md)
      d1 == [device EXCEPT !.inodes = inodes1]
  IN
  IF size \notin DOMAIN device.sieve
  THEN [db |-> [db1 EXCEPT ![dev] = [d1 EXCEPT !.sieve = set_unique(@, size, ino)]],
        ok |-> TRUE, hashes |-> <<>>]
  ELSE
  LET sieve_entry == device.sieve[size] IN
  IF sieve_entry.tag = "Unique"
  THEN LET ino0 == sieve_entry.ino
           d2 == [d1 EXCEPT !.sieve = sieve_transition(@, size)]
           path0 == inodes1[ino0].files[1]
           d3 == [d2 EXCEPT !.identicals =
                     insert_identical_file(@, sha256file(path0), ino0)]
           d4 == [d3 EXCEPT !.identicals =
                     insert_identical_file(@, sha256file(path), ino)]
       IN IF hfail = 1
          THEN [db |-> [db1 EXCEPT ![dev] = d2], ok |-> FALSE,
                hashes |-> <<path0>>]
          ELSE IF hfail = 2
          THEN [db |-> [db1 EXCEPT ![dev] = d3], ok |-> FALSE,
                hashes |-> <<path0, path>>]
          ELSE [db |-> [db1 EXCEPT ![dev] = d4], ok |-> TRUE,
                hashes |-> <<path0, path>>]
  ELSE IF hfail = 1
       THEN [db |-> [db1 EXCEPT ![dev] = d1], ok |-> FALSE, hashes |-> <<path>>]
       ELSE [db |-> [db1 EXCEPT ![dev] = [d1 EXCEPT !.identicals =
                        insert_identical_file(@, sha256file(path), ino)]],
             ok |-> TRUE, hashes |-> <<path>>]

\* hashed after sha256file has opened these paths.
RECURSIVE CountHashes(_, _)
CountHashes(h, paths) ==
  IF paths = <<>> THEN h
  ELSE LET i == link[PathSlot(Head(paths))] IN
       CountHashes([h EXCEPT ![i] = @ + 1], Tail(paths))

---------------------------------------------------------------------------
(* Initial states                                                          *)

\* Which directory entries name which inode. a/m/k is a file of device 2 or
\* a bind mount of a/g; inode numbers are given in order of first use.
LinkChoices ==
  {l \in [Slots -> FileInodes] :
     /\ l[Af] = <<1, 11>>
     /\ l[Ag] \in {<<1, 11>>, <<1, 12>>}
     /\ l[Bh] \in {<<1, 11>>, <<1, 12>>}
                    \cup (IF l[Ag] = <<1, 12>> THEN {<<1, 13>>} ELSE {})
     /\ l[Mk] \in {<<2, 11>>, l[Ag]}}

UsedDev1(l) == {l[Af], l[Ag], l[Bh]}

\* "p" and "q" differ in nothing but their bytes, so of two assignments that
\* differ by exchanging them one is kept: the first inode that does not hold
\* "r" holds "p". The file of device 2 holds "p".
ContentChoices(l) ==
  {c \in [FileInodes -> Contents] :
     /\ \A i \in FileInodes : i \notin UsedDev1(l) => c[i] = "p"
     /\ \A i \in UsedDev1(l) :
          c[i] = "q" => \E j \in UsedDev1(l) : j[2] < i[2] /\ c[j] = "p"}

MtimeChoices(l) ==
  {t \in [FileInodes -> 1..MaxMtime] :
     \A i \in FileInodes : i \notin UsedDev1(l) => t[i] = 1}

NoOps == [set_mtime |-> 0, remove |-> 0, hard_link |-> 0, dir_mtime |-> 0]

\* Database::new and the locals of run(), at the start of an invocation.
ProgramStart ==
  /\ pc = "walk"
  /\ err = ""
  /\ ti = 0
  /\ stack = <<>>
  /\ database = Database_new
  /\ gain = 0
  /\ todo = {}
  /\ gdev = 0
  /\ inodes = <<>>
  /\ original_path = <<>>
  /\ ii = 0
  /\ fi = 0
  /\ link_dir_mtime = 0
  /\ out = <<>>
  /\ hashed = [i \in FileInodes |-> 0]
  /\ entered = [d \in Dirs |-> 0]
  /\ classified = <<>>
  /\ ops = NoOps
  /\ relinked = <<>>

\* a/m/k is a file of device 2.
Init ==
  /\ link \in {l \in LinkChoices : l[Mk][1] = DirDev("M")}
  /\ content \in ContentChoices(link)
  /\ fmtime \in MtimeChoices(link)
  /\ dmtime = [d \in Dirs |-> 1]
  /\ mounted = FALSE
  /\ targets \in TargetLists
  /\ run_no = 1
  /\ pre = [link |-> link, fmtime |-> fmtime, dmtime |-> dmtime, relinks |-> 0]
  /\ ProgramStart

\* a/m/k is a bind mount of a/g: its st_dev is 1, its directory's is 2.
InitMount ==
  /\ link \in {l \in LinkChoices : l[Mk][1] # DirDev("M")}
  /\ content \in {c \in ContentChoices(link) : \A i \in FileInodes : c[i] # "r"}
  /\ fmtime = [i \in FileInodes |-> 1]
  /\ dmtime = [d \in Dirs |-> 1]
  /\ mounted = TRUE
  /\ targets \in TargetLists
  /\ run_no = 1
  /\ pre = [link |-> link, fmtime |-> fmtime, dmtime |-> dmtime, relinks |-> 0]
  /\ ProgramStart

---------------------------------------------------------------------------
(* walk_and_prepare                                                        *)

Fail(context) ==
  /\ pc' = "error"
  /\ err' = context

\* for target in &args.targets: WalkDir::new(target).into_iter()
WalkStart ==
  /\ pc = "walk"
  /\ stack = <<>>
  /\ ti < Len(targets)
  /\ ti' = ti + 1
  /\ stack' = <<targets[ti + 1]>>
  /\ UNCHANGED <<fsvars, targets, pc, err, database, relinkvars, out, ghostvars>>

\* it.next() yields an error, or entry.metadata() does.
WalkEntryError ==
  /\ pc = "walk"
  /\ stack # <<>>
  /\ \E context \in {"Failed to get a entry", "Failed to get metadata"} :
       Fail(context)
  /\ UNCHANGED <<fsvars, targets, walkvars, database, relinkvars, out, ghostvars>>

\* metadata.is_dir(): descend unless the directory was visited before.
WalkDirectory ==
  /\ pc = "walk"
  /\ stack # <<>>
  /\ LET path == Head(stack)
         md == LStat(path)
     IN /\ md.type = "dir"
        /\ LET db1 == Database_get_or_insert(database, md.dev)
               v == visit(db1[md.dev].visited_dirs, md.ino)
           IN /\ database' = [db1 EXCEPT ![md.dev].visited_dirs = v.set]
              /\ stack' = IF v.fresh THEN Children(path) \o Tail(stack)
                          ELSE Tail(stack)
              /\ entered' = IF v.fresh
                            THEN [entered EXCEPT ![PathDir(path)] = @ + 1]
                            ELSE entered
  /\ UNCHANGED <<fsvars, targets, pc, err, ti, relinkvars, out,
                 run_no, hashed, classified, ops, relinked, pre>>

\* metadata.is_file(): prepare_file, whose hashing may fail.
WalkFile ==
  /\ pc = "walk"
  /\ stack # <<>>
  /\ LET path == Head(stack)
         md == LStat(path)
     IN /\ md.type = "file"
        /\ \E hfail \in 0..Len(prepare_file(database, path, md, 0).hashes) :
             LET r == prepare_file(database, path, md, hfail) IN
             /\ database' = r.db
             /\ hashed' = CountHashes(hashed, r.hashes)
             /\ classified' = Append(classified, path)
             /\ IF r.ok
                THEN /\ stack' = Tail(stack)
                     /\ UNCHANGED <<pc, err>>
                ELSE /\ Fail("Failed to calculate a hash")
                     /\ UNCHANGED stack
  /\ UNCHANGED <<fsvars, targets, ti, relinkvars, out,
                 run_no, entered, ops, relinked, pre>>

\* Neither a directory nor a file: the root s, a symbolic link. WalkDir
\* follows a root that is a symbolic link to a directory and yields the
\* entries below it, while the entry's own metadata is the link's.
WalkOther ==
  /\ pc = "walk"
  /\ stack # <<>>
  /\ LET path == Head(stack)
         md == LStat(path)
     IN /\ md.type = "symlink"
        /\ stack' = Children(path) \o Tail(stack)
        /\ entered' = [entered EXCEPT ![PathDir(path)] = @ + 1]
  /\ UNCHANGED <<fsvars, targets, pc, err, ti, database, relinkvars, out,
                 run_no, hashed, classified, ops, relinked, pre>>

\* execute_relink called inside the loop over the targets, after a target.
WalkDone_per_target ==
  /\ pc = "walk"
  /\ stack = <<>>
  /\ ti >= 1
  /\ pc' = "groups"
  /\ gain' = 0
  /\ todo' = UNION {{<<d, h>> : h \in DOMAIN database[d].identicals} :
                      d \in DOMAIN database}
  /\ UNCHANGED <<fsvars, targets, err, walkvars, database, gdev, inodes,
                 original_path, ii, fi, link_dir_mtime, out, ghostvars>>

\* walk_and_prepare returns Ok and run() calls execute_relink: gain = 0 and
\* the iteration over the devices' groups begins.
WalkDone ==
  /\ pc = "walk"
  /\ stack = <<>>
  /\ ti = Len(targets)
  /\ pc' = "groups"
  /\ gain' = 0
  /\ todo' = UNION {{<<d, h>> : h \in DOMAIN database[d].identicals} :
                      d \in DOMAIN database}
  /\ UNCHANGED <<fsvars, targets, err, walkvars, database, gdev, inodes,
                 original_path, ii, fi, link_dir_mtime, out, ghostvars>>

---------------------------------------------------------------------------
(* execute_relink                                                          *)

RECURSIVE SortFrom(_, _, _)
\* The inodes of nlink n in their order in inos, then those of nlink n - 1,
\* and so on.
SortFrom(inos, map, n) ==
  IF n < 0 THEN <<>>
  ELSE SelectSeq(inos, LAMBDA x : map[x].nlink = n) \o SortFrom(inos, map, n - 1)

\* inodes.sort_by_key(|inode| inode.nlink): the fewest links first.
SortByNlink(inos, map) ==
  LET s == SortFrom(inos, map, Cardinality(Slots)) IN
  [k \in DOMAIN s |-> s[Len(s) + 1 - k]]

\* inodes.sort_by_key(|inode| Reverse(inode.nlink)): a stable sort, so
\* inodes of equal nlink keep the order of identical.inos.
SortByReverseNlink(inos, map) == SortFrom(inos, map, Cardinality(Slots))

\* The groups the two for loops may take next: those of the device being
\* iterated while it has any, then those of any other device.
NextGroups ==
  IF \E g \in todo : g[1] = gdev THEN {g \in todo : g[1] = gdev} ELSE todo

SortedGroup(g) ==
  SortByReverseNlink(database[g[1]].identicals[g[2]].inos, database[g[1]].inodes)

Max(S) == CHOOSE x \in S : \A y \in S : x >= y

\* The newest instead of the oldest modification time of the group.
MinMtime_max(g) ==
  Max({database[g[1]].inodes[i].mtime : i \in Range(SortedGroup(g))})

\* inodes.iter().map(|inode| inode.mtime).min()
MinMtime(g) ==
  Min({database[g[1]].inodes[i].mtime : i \in Range(SortedGroup(g))})

\* The inode fs::metadata and filetime::set_file_mtime reach through a path.
PathInode(p) == link[PathSlot(p)]

\* No group is passed over.
group_skipped_never(sorted) == FALSE

\* inodes.len() <= 1
group_skipped(sorted) == Len(sorted) <= 1

\* if inodes.len() <= 1 { continue; }
GroupContinue ==
  /\ pc = "groups"
  /\ \E g \in NextGroups :
       /\ group_skipped(SortedGroup(g))
       /\ todo' = todo \ {g}
       /\ gdev' = g[1]
       /\ inodes' = SortedGroup(g)
  /\ UNCHANGED <<fsvars, targets, pc, err, walkvars, database, gain,
                 original_path, ii, fi, link_dir_mtime, out, ghostvars>>

\* The loop over every member of the group, the canonical inode included.
RelinkedIndexes_all(sorted) == 1..Len(sorted)

\* for &inode in &inodes[1..]: the indexes of the members that are relinked.
RelinkedIndexes(sorted) == 2..Len(sorted)

\* A group of two or more inodes: print original_path, update_mtime, and
\* enter the loops over inodes[1..] and their files.
GroupStart ==
  /\ pc = "groups"
  /\ \E g \in NextGroups :
       LET sorted == SortedGroup(g)
           path == database[g[1]].inodes[sorted[1]].files[1]
           mtime == MinMtime(g)
           file_mtime == fmtime[PathInode(path)]
       IN /\ ~group_skipped(sorted)
          /\ todo' = todo \ {g}
          /\ gdev' = g[1]
          /\ inodes' = sorted
          /\ original_path' = path
          /\ out' = Append(out, <<"", path>>)
          /\ IF file_mtime # mtime
             THEN /\ fmtime' = [fmtime EXCEPT ![PathInode(path)] = mtime]
                  /\ ops' = [ops EXCEPT !.set_mtime = @ + 1]
             ELSE UNCHANGED <<fmtime, ops>>
          /\ IF RelinkedIndexes(sorted) # {}
             THEN /\ ii' = Min(RelinkedIndexes(sorted))
                  /\ fi' = 1
                  /\ pc' = "relink"
             ELSE /\ pc' = "groups"
                  /\ UNCHANGED <<ii, fi>>
  /\ UNCHANGED <<link, dmtime, content, mounted, targets, err, walkvars,
                 database, gain, link_dir_mtime, run_no, hashed, entered,
                 classified, relinked, pre>>

\* update_mtime fails: fs::metadata does, or set_file_mtime when it is called.
GroupMtimeError ==
  /\ pc = "groups"
  /\ \E g \in NextGroups :
       LET sorted == SortedGroup(g)
           path == database[g[1]].inodes[sorted[1]].files[1]
       IN /\ ~group_skipped(sorted)
          /\ todo' = todo \ {g}
          /\ gdev' = g[1]
          /\ inodes' = sorted
          /\ original_path' = path
          /\ out' = Append(out, <<"", path>>)
          /\ \E context \in {"Failed to fs::metadata"} \cup
                 (IF fmtime[PathInode(path)] # MinMtime(g)
                  THEN {"Failed to filetime::set_file_mtime"} ELSE {}) :
               Fail(context)
  /\ UNCHANGED <<fsvars, targets, walkvars, database, gain, ii, fi,
                 link_dir_mtime, ghostvars>>

\* The inode record and the file the loops are at.
CurInode == database[gdev].inodes[inodes[ii]]

CurFile == CurInode.files[fi]

\* relink, line 89: the path whose metadata is taken as original_metadata.
relink_original_dir(original, link_path) == Parent(link_path)

\* The time of the call instead of the directory's modification time.
relink_dir_mtime_now(link_dir_metadata) == Now

\* let link_dir_mtime = FileTime::from_last_modification_time(&link_dir_metadata)
relink_dir_mtime(link_dir_metadata) == link_dir_metadata.mtime

\* relink up to the ensure!: println!("<- {}"), the two fs::metadata calls
\* and the comparison of their devices; then link_dir_mtime is taken.
RelinkCheck ==
  /\ pc = "relink"
  /\ LET link_dir_path == Parent(CurFile)
         original_metadata == Stat(relink_original_dir(original_path, CurFile))
         link_dir_metadata == Stat(link_dir_path)
     IN /\ out' = Append(out, <<"<- ", CurFile>>)
        /\ IF original_metadata.dev = link_dir_metadata.dev
           THEN /\ link_dir_mtime' = relink_dir_mtime(link_dir_metadata)
                /\ pc' = "remove"
                /\ UNCHANGED err
           ELSE /\ Fail("dev mismatch")
                /\ UNCHANGED link_dir_mtime
  /\ UNCHANGED <<fsvars, targets, walkvars, database, gain, todo, gdev, inodes,
                 original_path, ii, fi, ghostvars>>

\* One of the two fs::metadata calls of relink fails.
RelinkCheckError ==
  /\ pc = "relink"
  /\ out' = Append(out, <<"<- ", CurFile>>)
  /\ \E context \in {"Failed to fs::metadata for original",
                     "Failed to fs::metadata or link_dir"} :
       Fail(context)
  /\ UNCHANGED <<fsvars, targets, walkvars, database, relinkvars, ghostvars>>

\* fs::remove_file(&link). A mount point cannot be removed (EBUSY).
RelinkRemove ==
  /\ pc = "remove"
  /\ LET s == PathSlot(CurFile) IN
     /\ link[s] # NoFile
     /\ ~IsMount(s)
     /\ link' = [link EXCEPT ![s] = NoFile]
     /\ dmtime' = [dmtime EXCEPT ![s[1]] = Now]
  /\ ops' = [ops EXCEPT !.remove = @ + 1]
  /\ pc' = "hard_link"
  /\ UNCHANGED <<fmtime, content, mounted, targets, err, walkvars, database,
                 relinkvars, out, run_no, hashed, entered, classified,
                 relinked, pre>>

RelinkRemoveError ==
  /\ pc = "remove"
  /\ Fail("Failed to fs::remove_file")
  /\ UNCHANGED <<fsvars, targets, walkvars, database, relinkvars, out, ghostvars>>

\* The mount a path lies on: linkat refuses (EXDEV) to link across mounts.
MountOf(p) == IF IsMount(PathSlot(p)) THEN "bind"
              ELSE IF PathDir(Parent(p)) = "M" THEN "dev2" ELSE "dev1"

\* fs::hard_link(&original, &link)
RelinkHardLink ==
  /\ pc = "hard_link"
  /\ LET s == PathSlot(CurFile)
         o == PathSlot(original_path)
     IN /\ link[o] # NoFile
        /\ link[s] = NoFile
        /\ MountOf(original_path) = MountOf(CurFile)
        /\ link' = [link EXCEPT ![s] = link[o]]
        /\ dmtime' = [dmtime EXCEPT ![s[1]] = Now]
  /\ ops' = [ops EXCEPT !.hard_link = @ + 1]
  /\ pc' = "restore"
  /\ UNCHANGED <<fmtime, content, mounted, targets, err, walkvars, database,
                 relinkvars, out, run_no, hashed, entered, classified,
                 relinked, pre>>

RelinkHardLinkError ==
  /\ pc = "hard_link"
  /\ Fail("Failed to fs::hard_link")
  /\ UNCHANGED <<fsvars, targets, walkvars, database, relinkvars, out, ghostvars>>

\* filetime::set_file_mtime(link_dir_path, link_dir_mtime) and relink
\* returns Ok; then the loops advance. When the files of the inode are
\* exhausted its realsize is added to gain if all its links were found.
RelinkRestore ==
  /\ pc = "restore"
  /\ dmtime' = [dmtime EXCEPT ![PathDir(Parent(CurFile))] = link_dir_mtime]
  /\ ops' = [ops EXCEPT !.dir_mtime = @ + 1]
  /\ relinked' = Append(relinked, CurFile)
  /\ IF fi < Len(CurInode.files)
     THEN /\ fi' = fi + 1
          /\ pc' = "relink"
          /\ UNCHANGED <<ii, gain>>
     ELSE /\ gain' = IF Len(CurInode.files) = CurInode.nlink
                     THEN gain + CurInode.realsize ELSE gain
          /\ IF ii < Len(inodes)
             THEN /\ ii' = ii + 1
                  /\ fi' = 1
                  /\ pc' = "relink"
             ELSE /\ pc' = "groups"
                  /\ UNCHANGED <<ii, fi>>
  /\ UNCHANGED <<link, fmtime, content, mounted, targets, err, walkvars,
                 database, todo, gdev, inodes, original_path, link_dir_mtime,
                 out, run_no, hashed, entered, classified, pre>>

RelinkRestoreError ==
  /\ pc = "restore"
  /\ Fail("Failed to filetime::set_file_mtime to restore a directory mtime")
  /\ UNCHANGED <<fsvars, targets, walkvars, database, relinkvars, out, ghostvars>>

\* execute_relink returns Ok(gain) and run() prints the gain.
Finish ==
  /\ pc = "groups"
  /\ todo = {}
  /\ out' = Append(out, <<"Gain", gain>>)
  /\ pc' = "done"
  /\ UNCHANGED <<fsvars, targets, err, walkvars, database, relinkvars, ghostvars>>

\* The program is started again on the same targets.
Restart ==
  /\ pc = "done"
  /\ run_no = 1
  /\ run_no' = 2
  /\ pre' = [link |-> link, fmtime |-> fmtime, dmtime |-> dmtime,
             relinks |-> Len(relinked)]
  /\ pc' = "walk"
  /\ err' = ""
  /\ ti' = 0
  /\ stack' = <<>>
  /\ database' = Database_new
  /\ gain' = 0
  /\ todo' = {}
  /\ gdev' = 0
  /\ inodes' = <<>>
  /\ original_path' = <<>>
  /\ ii' = 0
  /\ fi' = 0
  /\ link_dir_mtime' = 0
  /\ out' = <<>>
  /\ hashed' = [i \in FileInodes |-> 0]
  /\ entered' = [d \in Dirs |-> 0]
  /\ classified' = <<>>
  /\ ops' = NoOps
  /\ relinked' = <<>>
  /\ UNCHANGED <<fsvars, targets>>

Next ==
  \/ WalkStart \/ WalkEntryError \/ WalkDirectory \/ WalkFile \/ WalkOther
  \/ WalkDone
  \/ GroupContinue \/ GroupStart \/ GroupMtimeError
  \/ RelinkCheck \/ RelinkCheckError
  \/ RelinkRemove \/ RelinkRemoveError
  \/ RelinkHardLink \/ RelinkHardLinkError
  \/ RelinkRestore \/ RelinkRestoreError
  \/ Finish \/ Restart

Spec == Init /\ [][Next]_vars

SpecMount == InitMount /\ [][Next]_vars

---------------------------------------------------------------------------
(* Properties                                                              *)

\* The paths handed to prepare_file in this run.
Discovered == Range(classified)

\* The inode a path named when this run started.
PreInode(p) == pre.link[PathSlot(p)]

NoDup(s) == \A i, j \in DOMAIN s : i # j => s[i] # s[j]

\* The sum of the allocated sizes recorded for a set of inodes.
SumRealsize(S) ==
  SeqSum([k \in DOMAIN SetToSeq(S) |->
            database[SetToSeq(S)[k][1]].inodes[SetToSeq(S)[k][2]].realsize])

\* The content groups of the database, as <<device, digest>>.
Groups ==
  UNION {{<<d, h>> : h \in DOMAIN database[d].identicals} : d \in DOMAIN database}

\* The groups execute_relink consolidates.
BigGroups == {g \in Groups : Len(SortedGroup(g)) > 1}

\* C1: after a run that completes without error, any two discovered paths
\* that named files of one device with the same content name one inode, and
\* every discovered path exists and holds the content it held before the run.
C1_Consolidated ==
  pc = "done" =>
    /\ \A p, q \in Discovered :
         (PreInode(p)[1] = PreInode(q)[1]
            /\ content[PreInode(p)] = content[PreInode(q)])
         => PathInode(p) = PathInode(q)
    /\ \A p \in Discovered :
         /\ link[PathSlot(p)] # NoFile
         /\ content[PathInode(p)] = content[PreInode(p)]

\* A first run has ended and has joined two paths that named two inodes.
C1_Witness ==
  /\ pc = "done"
  /\ run_no = 1
  /\ \E p, q \in Discovered :
       /\ PreInode(p) # PreInode(q)
       /\ PreInode(p)[1] = PreInode(q)[1]
       /\ content[PreInode(p)] = content[PreInode(q)]
       /\ PathInode(p) = PathInode(q)

\* relink has passed its device check for the file the loops are at.
RelinkPastCheck ==
  \/ pc \in {"remove", "hard_link", "restore"}
  \/ /\ pc = "error"
     /\ err \in {"Failed to fs::remove_file", "Failed to fs::hard_link",
                 "Failed to filetime::set_file_mtime to restore a directory mtime"}

\* The parent directories of the two paths are on different devices.
CrossDevice(original, path) ==
  Stat(Parent(original)).dev # Stat(Parent(path)).dev

\* C2: a relink of a path whose parent directory is on another device than
\* the canonical path's parent directory fails with "dev mismatch" before
\* anything is removed: relink never gets past its device check.
C2_CrossDeviceRelinkFails ==
  RelinkPastCheck => ~CrossDevice(original_path, CurFile)

\* C3: every regular file is classified once: no path is handed to
\* prepare_file twice, no inode record lists a path twice, and no inode
\* record lists more paths than the inode has links.
C3_ClassifiedOnce ==
  /\ NoDup(classified)
  /\ \A d \in DOMAIN database : \A i \in DOMAIN database[d].inodes :
       /\ NoDup(database[d].inodes[i].files)
       /\ Len(database[d].inodes[i].files) <= database[d].inodes[i].nlink

\* The members of the consolidated groups that are not the canonical inode.
RelinkedInodes ==
  UNION {{<<g[1], SortedGroup(g)[k]>> : k \in 2..Len(SortedGroup(g))} : g \in BigGroups}

\* Every directory entry that named the inode was discovered.
WhollyDiscovered(i) ==
  \A s \in Slots : pre.link[s] = i => \E p \in Discovered : PathSlot(p) = s

\* C4: after a run that completes without error the gain is the sum of the
\* allocated sizes of the relinked inodes all of whose links were discovered.
C4_Gain ==
  pc = "done" =>
    gain = SumRealsize({i \in RelinkedInodes : WhollyDiscovered(i)})

\* The inodes registered for a device.
Registered(dev) ==
  IF dev \in DOMAIN database THEN {<<dev, i>> : i \in DOMAIN database[dev].inodes}
  ELSE {}

\* No other registered inode of the device has the size of inode i.
UniqueSize(i) ==
  \A j \in Registered(i[1]) : j # i => SizeOf(content[j]) # SizeOf(content[i])

\* C5: sha256file is never called on a file whose size no other inode
\* discovered on its device has.
C5_UniqueSizeNotHashed ==
  \A i \in FileInodes : UniqueSize(i) => hashed[i] = 0

\* The walk has ended; an inode of a size of its own was found through two
\* paths and was not hashed, while other inodes of its device were.
C5_Witness ==
  /\ pc = "groups"
  /\ \E i \in Registered(1) :
       /\ UniqueSize(i)
       /\ Len(database[1].inodes[i[2]].files) > 1
       /\ hashed[i] = 0
       /\ \E j \in Registered(1) : hashed[j] > 0

\* C6: sha256file is called at most once for an inode.
C6_HashedOnce == \A i \in FileInodes : hashed[i] <= 1

\* Three inodes of one size were found, the first of them through two
\* paths and hashed when the second inode appeared.
C6_Witness ==
  /\ pc = "groups"
  /\ Cardinality({i \in Registered(1) : hashed[i] = 1}) = 3
  /\ \E i \in Registered(1) : Len(database[1].inodes[i[2]].files) > 1

\* C7: a second run on the same targets, after a first run that completed
\* without error, writes no modification time, removes nothing, creates no
\* hardlink, and reports a gain of 0.
C7_SecondRunIdle ==
  run_no = 2 =>
    /\ ops = NoOps
    /\ relinked = <<>>
    /\ gain = 0
    /\ pc = "done" => Last(out) = <<"Gain", 0>>

\* The second run has ended after a first run that relinked paths.
C7_Witness ==
  /\ run_no = 2
  /\ pc = "done"
  /\ pre.relinks > 0

\* original_path of a group.
CanonicalPath(g) == database[g[1]].inodes[SortedGroup(g)[1]].files[1]

\* The modification times recorded for the members of a group.
RecordedMtimes(g) ==
  {database[g[1]].inodes[i].mtime : i \in Range(SortedGroup(g))}

IsOldest(t, g) == t \in RecordedMtimes(g) /\ \A u \in RecordedMtimes(g) : t <= u

\* C8: when consolidation has completed, the canonical file of every group
\* of two or more inodes has the oldest modification time recorded for the
\* group's members, and set_file_mtime was called for just those groups
\* whose canonical file did not have it before.
C8_CanonicalMtime ==
  pc = "done" =>
    /\ \A g \in BigGroups : IsOldest(fmtime[PathInode(CanonicalPath(g))], g)
    /\ ops.set_mtime =
         Cardinality({g \in BigGroups :
                        ~IsOldest(pre.fmtime[PreInode(CanonicalPath(g))], g)})

\* A run has ended that made the canonical file of a group older.
C8_Witness ==
  /\ pc = "done"
  /\ ops.set_mtime = 1
  /\ \E g \in BigGroups :
       fmtime[PathInode(CanonicalPath(g))] < pre.fmtime[PreInode(CanonicalPath(g))]

\* C9: the walk descends into a directory inode at most once in a run.
C9_DirectoryEnteredOnce == \A d \in Dirs : entered[d] <= 1

\* The file system differs from what it was when the run started.
Mutated ==
  \/ link # pre.link
  \/ fmtime # pre.fmtime
  \/ dmtime # pre.dmtime
  \/ ops # NoOps

WalkErrors == {"Failed to get a entry", "Failed to get metadata",
               "Failed to calculate a hash"}

\* C10: the file system is mutated only once every target has been walked
\* to its end, and a run that a metadata or hash error ends during the walk
\* leaves the file system as it was.
C10_NoMutationBeforeWalkEnds ==
  /\ Mutated => (pc # "walk" /\ ti = Len(targets) /\ stack = <<>>)
  /\ (pc = "error" /\ err \in WalkErrors) => ~Mutated

\* A file has been removed in a run over two targets.
C10_Witness ==
  /\ Len(targets) = 2
  /\ ops.remove > 0
  /\ link # pre.link

\* The discovered paths that name no file.
Missing == {p \in Discovered : PathInode(p) = NoFile}

\* C11: a discovered path is missing only while it is the path being
\* relinked, between its removal and the creation of its hardlink, or after
\* the run was ended by the failure of that hardlink; it is then the one
\* discovered path that is missing.
C11_OnlyRelinkedPathMissing ==
  Missing # {} =>
    /\ \/ pc = "hard_link"
       \/ pc = "error" /\ err = "Failed to fs::hard_link"
    /\ Missing = {CurFile}

\* The inode record, <<device, inode number>>, that lists a path.
RecordOf(p) ==
  CHOOSE r \in UNION {Registered(d) : d \in DOMAIN database} :
    p \in Range(database[r[1]].inodes[r[2]].files)

\* The content group an inode record is a member of.
GroupOf(r) ==
  CHOOSE g \in Groups : g[1] = r[1] /\ r[2] \in Range(SortedGroup(g))

\* A run has been ended by an error.
Aborted == pc = "error"

\* C12: the first error ends the run: the failing step and every step after
\* it leave the file system as it is, the paths relinked before the error
\* still name the inode of their group's canonical path, and no gain line is
\* printed.
C12_FirstErrorEndsRun ==
  /\ [](Aborted =>
          /\ \A p \in Range(relinked) :
               /\ PathInode(p) # NoFile
               /\ PathInode(p) = PathInode(CanonicalPath(GroupOf(RecordOf(p))))
          /\ \A k \in DOMAIN out : out[k][1] # "Gain")
  /\ [][(Aborted \/ Aborted') =>
          /\ UNCHANGED <<link, fmtime, dmtime, ops, relinked>>
          /\ Aborted => UNCHANGED out]_vars

\* The discovered paths of the members of a group other than the canonical
\* inode.
NonCanonicalPaths(g) ==
  UNION {Range(database[g[1]].inodes[SortedGroup(g)[k]].files) :
           k \in 2..Len(SortedGroup(g))}

\* The lines of standard output that are "<- " followed by one of the paths.
RelinkLines(paths) ==
  {k \in DOMAIN out : out[k][1] = "<- " /\ out[k][2] \in paths}

\* C13: after a run that completes without error standard output holds, for
\* every group of two or more inodes, the canonical path followed by one
\* "<- " line for each discovered path of the other members, and every path
\* printed after "<- " names the inode of its group's canonical path.
C13_Output ==
  pc = "done" =>
    /\ \A g \in BigGroups :
         /\ \E k \in DOMAIN out :
              /\ out[k] = <<"", CanonicalPath(g)>>
              /\ RelinkLines(NonCanonicalPaths(g))
                   = (k + 1)..(k + Cardinality(NonCanonicalPaths(g)))
         /\ \A p \in NonCanonicalPaths(g) :
              Cardinality(RelinkLines({p})) = 1
    /\ \A k \in DOMAIN out :
         out[k][1] = "<- " =>
           \E g \in BigGroups :
             /\ out[k][2] \in NonCanonicalPaths(g)
             /\ PathInode(out[k][2]) = PathInode(CanonicalPath(g))
    /\ Len(out) = Cardinality(BigGroups) + Cardinality(RelinkLines(Discovered)) + 1

\* walk_and_prepare has returned Ok.
WalkOver == pc # "walk" /\ ~(pc = "error" /\ err \in WalkErrors)

\* The registered inodes of a device whose size another registered inode of
\* the device has.
AmbiguousSize(d) == {r \in Registered(d) : ~UniqueSize(r)}

\* C14: after the walk, whatever the order of the visits, the content groups
\* of a device are the classes by digest of the discovered inodes whose size
\* two or more discovered inodes of the device have: such an inode is listed
\* once, in the group of its own digest, and no other inode is in a group.
C14_GroupMembership ==
  WalkOver =>
    \A d \in DOMAIN database :
      /\ DOMAIN database[d].identicals
           = {Sha256(content[r]) : r \in AmbiguousSize(d)}
      /\ \A h \in DOMAIN database[d].identicals :
           /\ NoDup(database[d].identicals[h].inos)
           /\ Range(database[d].identicals[h].inos)
                = {r[2] : r \in {x \in AmbiguousSize(d) : Sha256(content[x]) = h}}

\* The walk started below a/b and has ended with a group of two inodes and
\* an inode of a size of its own, which is in no group.
C14_Witness ==
  /\ pc = "groups"
  /\ classified # <<>>
  /\ classified[1] = <<"a", "b", "h">>
  /\ BigGroups # {}
  /\ \E r \in Registered(1) : UniqueSize(r)

\* The devices and the file sizes of the model.
Devices == {DirDev(d) : d \in Dirs}

Sizes == {SizeOf(c) : c \in Contents}

\* The sieve entry of a size on a device in a database, or "Absent".
SieveEntry(db, d, size) ==
  IF d \in DOMAIN db /\ size \in DOMAIN db[d].sieve THEN db[d].sieve[size]
  ELSE [tag |-> "Absent"]

\* This step classifies a path of an inode of this device and size that the
\* database does not hold yet.
NewInodeClassified(d, size) ==
  /\ classified' # classified
  /\ LET md == LStat(Last(classified')) IN
     /\ md.dev = d
     /\ md.size = size
     /\ ~(d \in DOMAIN database /\ md.ino \in DOMAIN database[d].inodes)

\* C15: within a run a sieve entry goes from absent to Unique and from
\* Unique to Ambiguous only: an Ambiguous entry stays Ambiguous, a Unique
\* entry keeps its inode, and an entry becomes Ambiguous in just those steps
\* that classify a second inode of its size on its device.
C15_SieveMonotone ==
  [][run_no' = run_no =>
       \A d \in Devices, size \in Sizes :
         LET old == SieveEntry(database, d, size)
             new == SieveEntry(database', d, size)
         IN /\ old.tag = "Absent" => new.tag \in {"Absent", "Unique"}
            /\ old.tag = "Unique" => new \in {old, Ambiguous}
            /\ old.tag = "Ambiguous" => new = Ambiguous
            /\ (old.tag = "Unique" /\ new = Ambiguous)
                 <=> (old.tag = "Unique" /\ NewInodeClassified(d, size))]_vars

\* The walk has ended with an Ambiguous entry for one size and a Unique
\* entry for another, and an inode was discovered through two paths.
C15_Witness ==
  /\ pc = "groups"
  /\ SieveEntry(database, 1, SizeOf("p")) = Ambiguous
  /\ SieveEntry(database, 1, SizeOf("r")).tag = "Unique"
  /\ \E r \in Registered(1) : Len(database[1].inodes[r[2]].files) > 1

\* relink is at work on a group, or an error has ended it there.
InGroup ==
  \/ pc \in {"relink", "remove", "hard_link", "restore"}
  \/ pc = "error" /\ err \notin WalkErrors /\ ii > 0

\* C16: while a group is consolidated its canonical path exists and names
\* the inode it was chosen for, the first of the sorted members, and a
\* hardlink just created names that inode.
C16_CanonicalStable ==
  /\ InGroup => PathInode(original_path) = <<gdev, inodes[1]>>
  /\ pc = "restore" => PathInode(CurFile) = <<gdev, inodes[1]>>

\* The second of two members is being relinked: a hardlink to the canonical
\* path has been created for the group before, and another one just now.
C16_Witness ==
  /\ pc = "restore"
  /\ ii = 3
  /\ PathInode(CurFile) = PathInode(original_path)
  /\ \E p \in Range(relinked) : PathInode(p) = PathInode(original_path)

\* The link count recorded for the k-th member of the group at work.
MemberNlink(k) == database[gdev].inodes[inodes[k]].nlink

\* C17: the canonical path of a group is the first path discovered of the
\* first sorted member, no member has more recorded links than that member,
\* and so no inode is relinked to one with fewer recorded links.
C17_CanonicalHasMostLinks ==
  InGroup =>
    /\ original_path = database[gdev].inodes[inodes[1]].files[1]
    /\ \A k \in DOMAIN inodes : MemberNlink(1) >= MemberNlink(k)
    /\ ii \in DOMAIN inodes => MemberNlink(ii) <= MemberNlink(1)

\* A path of an inode with one link is being relinked to the path of an
\* inode with two links that was discovered after it.
C17_Witness ==
  /\ pc = "restore"
  /\ MemberNlink(1) = 2
  /\ MemberNlink(ii) = 1
  /\ database[gdev].identicals[Sha256(content[<<gdev, inodes[1]>>])].inos[1] = inodes[ii]

\* The directory that holds the path being relinked.
LinkDir == PathDir(Parent(CurFile))

\* C18: relink records the modification time its path's directory has just
\* before the removal and leaves the directory with it, so that between
\* relinks, and at the end of a run that completes without error, every
\* directory has the modification time it had when the run started.
C18_DirectoryMtimeRestored ==
  /\ pc = "remove" => link_dir_mtime = dmtime[LinkDir]
  /\ pc \in {"remove", "hard_link", "restore"} =>
       /\ link_dir_mtime = pre.dmtime[LinkDir]
       /\ \A d \in Dirs \ {LinkDir} : dmtime[d] = pre.dmtime[d]
  /\ pc \in {"walk", "groups", "relink", "done"} => dmtime = pre.dmtime

\* A run has ended that relinked paths of two directories.
C18_Witness ==
  /\ pc = "done"
  /\ dmtime = pre.dmtime
  /\ \E p, q \in Range(relinked) : PathDir(Parent(p)) # PathDir(Parent(q))

\* The groups of one inode.
SingleGroups == Groups \ BigGroups

\* The discovered paths of the only member of a group of one inode.
SinglePaths(g) == Range(database[g[1]].inodes[SortedGroup(g)[1]].files)

\* C19: a group of one inode is left as it is: the inode keeps its
\* modification time, its paths keep naming it, no line of standard output
\* names one of its paths, and a run that finds no group of two or more
\* inodes ends with no file system operation done and a gain of 0.
C19_SingleGroupUntouched ==
  /\ \A g \in SingleGroups :
       LET i == <<g[1], SortedGroup(g)[1]>> IN
       /\ fmtime[i] = pre.fmtime[i]
       /\ \A p \in SinglePaths(g) : PathInode(p) = i
       /\ \A k \in DOMAIN out :
            out[k][1] \in {"", "<- "} => out[k][2] \notin SinglePaths(g)
  /\ (pc = "done" /\ BigGroups = {}) =>
       /\ ops = NoOps
       /\ relinked = <<>>
       /\ out = << <<"Gain", 0>> >>

\* A run has ended that hashed two files of one size and different contents
\* and found two groups of one inode.
C19_Witness ==
  /\ pc = "done"
  /\ Cardinality(SingleGroups) = 2
  /\ BigGroups = {}
  /\ \E i, j \in Registered(1) :
       /\ content[i] # content[j]
       /\ SizeOf(content[i]) = SizeOf(content[j])
       /\ hashed[i] = 1
       /\ hashed[j] = 1
  /\ gain = 0

\* C20: the database keeps the devices apart: an inode record lists only
\* paths of files of its bundle's device and inode number, a sieve entry
\* stands for a registered inode of its device and size, a group lists only
\* registered inodes of its device that have its digest, and a hardlink is
\* created between two paths recorded under one device.
C20_DeviceIsolation ==
  /\ \A d \in DOMAIN database :
       /\ \A ino \in DOMAIN database[d].inodes :
            \A p \in Range(database[d].inodes[ino].files) : PreInode(p) = <<d, ino>>
       /\ \A size \in DOMAIN database[d].sieve :
            /\ \E r \in Registered(d) : SizeOf(content[r]) = size
            /\ database[d].sieve[size].tag = "Unique" =>
                 /\ <<d, database[d].sieve[size].ino>> \in Registered(d)
                 /\ SizeOf(content[<<d, database[d].sieve[size].ino>>]) = size
       /\ \A h \in DOMAIN database[d].identicals :
            \A ino \in Range(database[d].identicals[h].inos) :
              /\ <<d, ino>> \in Registered(d)
              /\ Sha256(content[<<d, ino>>]) = h
  /\ pc = "restore" =>
       /\ PreInode(CurFile)[1] = gdev
       /\ PreInode(original_path)[1] = gdev
       /\ RecordOf(CurFile)[1] = RecordOf(original_path)[1]
       /\ PathInode(CurFile)[1] = gdev

\* A hardlink has been created on device 1 while device 2 holds a file of
\* the same inode number, size and content, which keeps its path.
C20_Witness ==
  /\ pc = "restore"
  /\ gdev = 1
  /\ 2 \in DOMAIN database
  /\ \E r \in Registered(2) :
       /\ r[2] = inodes[1]
       /\ content[r] = content[<<1, inodes[1]>>]
       /\ \A p \in Range(database[2].inodes[r[2]].files) : PathInode(p) = r

===========================================================================
